---------------------------- MODULE Spec2Model ----------------------------
(***************************************************************************)
(* A model of unicode_escape::decode (src/src/lib.rs): the scanning loop,  *)
(* the two-digit hex escape parser and the braced Unicode escape parser.   *)
(*                                                                         *)
(* A character is its Unicode scalar value (a natural number), a string a  *)
(* sequence of characters.  The iterator `chars` is the pair (input, pos): *)
(* pos characters have been consumed, chars.next() yields input[pos + 1]   *)
(* and advances, chars.peek() yields it and does not.                      *)
(***************************************************************************)
EXTENDS Naturals, Sequences, FiniteSets, TLC

VARIABLES input, pos, result, hex_chars, pc, ret

vars == <<input, pos, result, hex_chars, pc, ret>>

(***************************************************************************)
(* Characters.                                                             *)
(***************************************************************************)

\* The scalar values of the characters the inputs are written with.
CodePoint ==
    ("\\" :> 92) @@ ("\"" :> 34) @@ ("'" :> 39) @@ (" " :> 32) @@
    ("+" :> 43) @@ ("-" :> 45) @@ ("{" :> 123) @@ ("}" :> 125) @@
    ("0" :> 48) @@ ("1" :> 49) @@ ("4" :> 52) @@ ("6" :> 54) @@
    ("7" :> 55) @@ ("8" :> 56) @@ ("9" :> 57) @@
    ("A" :> 65) @@ ("D" :> 68) @@ ("E" :> 69) @@ ("F" :> 70) @@
    ("G" :> 71) @@ ("X" :> 88) @@
    ("a" :> 97) @@ ("f" :> 102) @@ ("g" :> 103) @@
    ("n" :> 110) @@ ("r" :> 114) @@ ("t" :> 116) @@ ("u" :> 117) @@
    ("x" :> 120)

\* One character, as the source writes it: 'x'.
Ch(s) == CodePoint[s]

\* A string literal, written as the sequence of its characters.
Str(ss) == [i \in 1..Len(ss) |-> CodePoint[ss[i]]]

\* char::is_ascii_hexdigit.
IsAsciiHexDigit(c) ==
    \/ c \in 48..57
    \/ c \in 65..70
    \/ c \in 97..102

\* char::to_digit(radix), which from_str_radix applies to each character:
\* the digit's value when it is below the radix; 36 stands for None.
ToDigit(c, radix) ==
    LET d == IF c \in 48..57 THEN c - 48
             ELSE IF c \in 97..122 THEN c - 97 + 10
             ELSE IF c \in 65..90 THEN c - 65 + 10
             ELSE 36
    IN IF d < radix THEN d ELSE 36

(***************************************************************************)
(* Integer parsing: {integer}::from_str_radix(src, radix) of the standard  *)
(* library, as called at lib.rs:120 (u8) and lib.rs:185 (u32).  An empty   *)
(* string is an error; a lone sign is an error; a leading '+' is skipped   *)
(* (a leading '-' only for signed types, so it is an invalid digit here);  *)
(* every other character must be a digit; the value must fit the type.     *)
(***************************************************************************)

\* The digits left after the optional leading '+' of an unsigned type.
StripSign(src) ==
    IF Len(src) > 1 /\ src[1] = Ch("+") THEN Tail(src) ELSE src

\* Every character is a digit of the radix.
AllDigits(digits, radix) ==
    \A i \in 1..Len(digits) : ToDigit(digits[i], radix) < 36

\* The string holds no number: it is empty, a lone sign, or holds a
\* character that is no digit.
NoNumber(src, radix) ==
    \/ src = <<>>
    \/ src = <<Ch("+")>>
    \/ src = <<Ch("-")>>
    \/ ~AllDigits(StripSign(src), radix)

\* The value of a digit string, accumulated left to right as long as it
\* fits 8 bits; 256 stands for an overflow.
RECURSIVE U8Value(_, _, _)
U8Value(digits, radix, acc) ==
    IF digits = <<>> THEN acc
    ELSE IF acc * radix + ToDigit(Head(digits), radix) > 255 THEN 256
    ELSE U8Value(Tail(digits), radix,
                 acc * radix + ToDigit(Head(digits), radix))

\* u8::from_str_radix(src, radix): [ok, value].
U8FromStrRadix(src, radix) ==
    IF NoNumber(src, radix) THEN [ok |-> FALSE, value |-> 0]
    ELSE LET v == U8Value(StripSign(src), radix, 0) IN
         IF v > 255 THEN [ok |-> FALSE, value |-> 0]
         ELSE [ok |-> TRUE, value |-> v]

\* A u32 is kept as its two 16-bit halves <<hi, lo>>, so that every 32-bit
\* value is represented exactly.  One more digit d: value * radix + d, with
\* checked arithmetic; hi = 65536 stands for an overflow.
RECURSIVE U32Value(_, _, _)
U32Value(digits, radix, acc) ==
    IF digits = <<>> THEN acc
    ELSE LET low == acc[2] * radix + ToDigit(Head(digits), radix)
             hi  == acc[1] * radix + (low \div 65536)
         IN IF hi > 65535 THEN <<65536, 0>>
            ELSE U32Value(Tail(digits), radix, <<hi, low % 65536>>)

\* u32::from_str_radix(src, radix): [ok, hi, lo].
U32FromStrRadix(src, radix) ==
    IF NoNumber(src, radix) THEN [ok |-> FALSE, hi |-> 0, lo |-> 0]
    ELSE LET v == U32Value(StripSign(src), radix, <<0, 0>>) IN
         IF v[1] > 65535 THEN [ok |-> FALSE, hi |-> 0, lo |-> 0]
         ELSE [ok |-> TRUE, hi |-> v[1], lo |-> v[2]]

\* A slip: char::from_u32_unchecked, which takes the surrogates too.
CharFromU32Unchecked(hi, lo) ==
    IF hi > 16 THEN [some |-> FALSE, c |-> 0]
    ELSE [some |-> TRUE, c |-> hi * 65536 + lo]

\* char::from_u32(value): Some(c) exactly for the Unicode scalar values,
\* 0..0x10FFFF without the surrogates 0xD800..0xDFFF.
CharFromU32(hi, lo) ==
    IF hi > 16 \/ (hi = 0 /\ lo \in 55296..57343)
    THEN [some |-> FALSE, c |-> 0]
    ELSE [some |-> TRUE, c |-> hi * 65536 + lo]

(***************************************************************************)
(* The state of one decode call, as a record, and the steps of the call as *)
(* operators on it.  pc is the place of the next read of `chars`.          *)
(***************************************************************************)

NoRet == [kind |-> "None"]
Ok(s) == [kind |-> "Ok", val |-> s]
Err(e) == [kind |-> "Err", err |-> e]

DecodeError == {"InvalidEscape", "InvalidHexChar", "InvalidUnicode"}

\* decode's entry: an empty result, the iterator at the start of the input.
Enter(s) ==
    [input |-> s, pos |-> 0, result |-> <<>>, hex_chars |-> <<>>,
     pc |-> "scan", ret |-> NoRet]

\* chars.next() / chars.peek() is Some.
HasNext(st) == st.pos < Len(st.input)

\* The character chars.peek() shows, chars.next() yields.
Peek(st) == st.input[st.pos + 1]

\* The iterator after chars.next().
Advance(st) == [st EXCEPT !.pos = @ + 1]

\* result.push(c), and back to the head of the loop.
Push(st, c) == [st EXCEPT !.result = Append(@, c), !.pc = "scan"]

\* return Err(e): the call ends and the result buffer is dropped.
Fail(st, e) == [st EXCEPT !.pc = "done", !.ret = Err(e), !.result = <<>>]

\* return Ok(result).
Return(st) == [st EXCEPT !.pc = "done", !.ret = Ok(st.result)]

\* A slip: the else branch is missing, a literal is consumed and not pushed.
ScanStepNoPush(st) ==
    IF ~HasNext(st) THEN Return(st)
    ELSE IF Peek(st) = Ch("\\") THEN [Advance(st) EXCEPT !.pc = "tag"]
    ELSE Advance(st)

\* while let Some(c) = chars.next(): the end of the input ends the call,
\* a backslash opens an escape, any other character is pushed.
ScanStep(st) ==
    IF ~HasNext(st) THEN Return(st)
    ELSE IF Peek(st) = Ch("\\") THEN [Advance(st) EXCEPT !.pc = "tag"]
    ELSE Push(Advance(st), Peek(st))

\* A slip: an unknown escape is skipped and the scan goes on.
UnknownTagSkipped(st) == [st EXCEPT !.pc = "scan"]

\* The arm `_ =>` of the match: no tag, or an unknown one.
UnknownTag(st) == Fail(st, "InvalidEscape")

\* The tags of the simple escape sequences.
SimpleTags ==
    {Ch("t"), Ch("n"), Ch("r"), Ch("0"), Ch("\\"), Ch("\""), Ch("'")}

\* A slip: the arms of n and r pushing each other's character.
SimpleEscapeSwapped(t) ==
    CASE t = Ch("t") -> 9
      [] t = Ch("n") -> 13
      [] t = Ch("r") -> 10
      [] t = Ch("0") -> 0
      [] t = Ch("\\") -> Ch("\\")
      [] t = Ch("\"") -> Ch("\"")
      [] t = Ch("'") -> Ch("'")

\* The arms of the match for the simple escape sequences: the character
\* each tag pushes.
SimpleEscape(t) ==
    CASE t = Ch("t") -> 9
      [] t = Ch("n") -> 10
      [] t = Ch("r") -> 13
      [] t = Ch("0") -> 0
      [] t = Ch("\\") -> Ch("\\")
      [] t = Ch("\"") -> Ch("\"")
      [] t = Ch("'") -> Ch("'")

\* A slip: a backslash that ends the input is pushed as itself.
TagStepLenient(st) ==
    IF ~HasNext(st) THEN Push(st, Ch("\\"))
    ELSE LET t == Peek(st)
             s == Advance(st)
         IN CASE t \in SimpleTags -> Push(s, SimpleEscape(t))
              [] t = Ch("x") -> [s EXCEPT !.pc = "escape_hex", !.hex_chars = <<>>]
              [] t = Ch("u") -> [s EXCEPT !.pc = "decode_unicode", !.hex_chars = <<>>]
              [] OTHER -> UnknownTag(s)

\* match chars.next() after a backslash.
TagStep(st) ==
    IF ~HasNext(st) THEN UnknownTag(st)
    ELSE LET t == Peek(st)
             s == Advance(st)
         IN CASE t \in SimpleTags -> Push(s, SimpleEscape(t))
              [] t = Ch("x") -> [s EXCEPT !.pc = "escape_hex", !.hex_chars = <<>>]
              [] t = Ch("u") -> [s EXCEPT !.pc = "decode_unicode", !.hex_chars = <<>>]
              [] OTHER -> UnknownTag(s)

\* A slip: the two characters parsed in base 10.
HexParseDecimal(st) ==
    LET v == U8FromStrRadix(st.hex_chars, 10) IN
    IF v.ok THEN Push(st, v.value) ELSE Fail(st, "InvalidHexChar")

\* escape_hex after its loop: parse the two characters as a u8 in base 16,
\* and the caller pushes char::from(value).
HexParse(st) ==
    LET v == U8FromStrRadix(st.hex_chars, 16) IN
    IF v.ok THEN Push(st, v.value) ELSE Fail(st, "InvalidHexChar")

\* A slip: `for _ in 0..1`, a single character is taken.
HexStepOneDigit(st) ==
    IF ~HasNext(st) THEN Fail(st, "InvalidHexChar")
    ELSE HexParse([Advance(st) EXCEPT !.hex_chars = Append(@, Peek(st))])

\* escape_hex, one turn of `for _ in 0..2`; the second turn falls through
\* to the parse.
HexStep(st) ==
    IF ~HasNext(st) THEN Fail(st, "InvalidHexChar")
    ELSE LET s == [Advance(st) EXCEPT !.hex_chars = Append(@, Peek(st))]
         IN IF Len(s.hex_chars) < 2 THEN s ELSE HexParse(s)

\* decode_unicode: remove the leading '{'.
OpenStep(st) ==
    IF HasNext(st) /\ Peek(st) = Ch("{")
    THEN [Advance(st) EXCEPT !.pc = "digits", !.hex_chars = <<>>]
    ELSE IF HasNext(st) THEN Fail(Advance(st), "InvalidUnicode")
    ELSE Fail(st, "InvalidUnicode")

\* A slip: the loop reads with chars.next(), so the character that ends
\* the run is consumed with it.
DigitStepConsuming(st) ==
    IF HasNext(st) /\ IsAsciiHexDigit(Peek(st))
    THEN [Advance(st) EXCEPT !.hex_chars = Append(@, Peek(st))]
    ELSE IF HasNext(st) THEN [Advance(st) EXCEPT !.pc = "close"]
    ELSE [st EXCEPT !.pc = "close"]

\* decode_unicode, one turn of `while let Some(&c) = chars.peek()`: a hex
\* digit is gathered and consumed, anything else is left where it is.
DigitStep(st) ==
    IF HasNext(st) /\ IsAsciiHexDigit(Peek(st))
    THEN [Advance(st) EXCEPT !.hex_chars = Append(@, Peek(st))]
    ELSE [st EXCEPT !.pc = "close"]

\* decode_unicode: convert the gathered digits to a char, which the caller
\* pushes.
Convert(st) ==
    LET v == U32FromStrRadix(st.hex_chars, 16) IN
    IF v.ok /\ CharFromU32(v.hi, v.lo).some
    THEN Push(st, CharFromU32(v.hi, v.lo).c)
    ELSE Fail(st, "InvalidUnicode")

\* decode_unicode: remove the trailing '}', then convert.
CloseStep(st) ==
    IF HasNext(st) /\ Peek(st) = Ch("}") THEN Convert(Advance(st))
    ELSE IF HasNext(st) THEN Fail(Advance(st), "InvalidUnicode")
    ELSE Fail(st, "InvalidUnicode")

\* The next step of a call that has not returned.
Step(st) ==
    CASE st.pc = "scan" -> ScanStep(st)
      [] st.pc = "tag" -> TagStep(st)
      [] st.pc = "escape_hex" -> HexStep(st)
      [] st.pc = "decode_unicode" -> OpenStep(st)
      [] st.pc = "digits" -> DigitStep(st)
      [] st.pc = "close" -> CloseStep(st)

\* The call run from st to its return.
RECURSIVE Run(_)
Run(st) == IF st.pc = "done" THEN st ELSE Run(Step(st))

\* The call run from st, which is about to read a tag or is inside an
\* escape, to the end of that escape: back at the loop's head, or returned.
RECURSIVE FinishEscape(_)
FinishEscape(st) ==
    IF st.pc \in {"scan", "done"} THEN st ELSE FinishEscape(Step(st))

\* decode(input), the value returned.
Decode(s) == Run(Enter(s)).ret

(***************************************************************************)
(* Inputs: every concatenation of at most MaxPieces pieces.                *)
(***************************************************************************)

MaxPieces == 3

\* Single characters (the backslash, tags, hex digits of both cases, signs,
\* an unknown tag, the closing brace), the simple escapes, the openers of
\* the hex and Unicode escapes, and braced digit runs at the edges of the
\* scalar values: surrogates, U+10FFFF, 0x110000, nine significant digits
\* (more than 32 bits), and nine digits with leading zeros.
Pieces ==
    { Str(<<"\\">>), Str(<<"n">>), Str(<<"0">>), Str(<<"X">>), Str(<<"}">>),
      Str(<<"4">>), Str(<<"a">>), Str(<<"F">>), Str(<<"+">>), Str(<<"-">>),
      Str(<<"\\", "t">>), Str(<<"\\", "r">>), Str(<<"\\", "\"">>),
      Str(<<"\\", "'">>),
      Str(<<"\\", "x">>), Str(<<"\\", "u">>), Str(<<"\\", "u", "{">>),
      Str(<<"\\", "x", "4">>), Str(<<"\\", "x", "+">>),
      Str(<<"D", "8", "0", "0", "}">>), Str(<<"D", "F", "F", "F", "}">>),
      Str(<<"1", "0", "F", "F", "F", "F", "}">>),
      Str(<<"1", "1", "0", "0", "0", "0", "}">>),
      Str(<<"1", "0", "0", "0", "0", "0", "0", "0", "0", "}">>),
      Str(<<"0", "0", "0", "0", "0", "0", "0", "0", "a", "}">>) }

\* The pieces of the concatenation claim: whole tokens and the characters
\* that could run into a neighbouring token.
ConcatPieces ==
    { Str(<<"\\">>), Str(<<"n">>), Str(<<"4">>), Str(<<"a">>), Str(<<"}">>),
      Str(<<"X">>), Str(<<"+">>),
      Str(<<"\\", "t">>), Str(<<"\\", "x">>), Str(<<"\\", "x", "4">>),
      Str(<<"\\", "u">>), Str(<<"\\", "u", "{">>),
      Str(<<"1", "0", "F", "F", "F", "F", "}">>),
      Str(<<"D", "8", "0", "0", "}">>) }

RECURSIVE Concat(_, _)
Concat(ps, n) == IF n = 0 THEN <<>> ELSE Concat(ps, n - 1) \o ps[n]

(***************************************************************************)
(* The state machine: one decode call on an input.                         *)
(***************************************************************************)

Cur ==
    [input |-> input, pos |-> pos, result |-> result,
     hex_chars |-> hex_chars, pc |-> pc, ret |-> ret]

Load(st) ==
    /\ input' = st.input
    /\ pos' = st.pos
    /\ result' = st.result
    /\ hex_chars' = st.hex_chars
    /\ pc' = st.pc
    /\ ret' = st.ret

\* The call has been entered, on a concatenation of pieces of P.
InitOn(P) ==
    /\ \E ps \in [1..MaxPieces -> P \cup {<<>>}] :
           input = Concat(ps, MaxPieces)
    /\ pos = 0
    /\ result = <<>>
    /\ hex_chars = <<>>
    /\ pc = "scan"
    /\ ret = NoRet

Init == InitOn(Pieces)

Scan == pc = "scan" /\ Load(ScanStep(Cur))

Tag == pc = "tag" /\ Load(TagStep(Cur))

EscapeHex == pc = "escape_hex" /\ Load(HexStep(Cur))

UnicodeOpen == pc = "decode_unicode" /\ Load(OpenStep(Cur))

UnicodeDigits == pc = "digits" /\ Load(DigitStep(Cur))

UnicodeClose == pc = "close" /\ Load(CloseStep(Cur))

Next ==
    \/ Scan
    \/ Tag
    \/ EscapeHex
    \/ UnicodeOpen
    \/ UnicodeDigits
    \/ UnicodeClose

Spec == Init /\ [][Next]_vars

\* The same call on the inputs of the concatenation claim.
InitConcat == InitOn(ConcatPieces)

SpecConcat == InitConcat /\ [][Next]_vars

(***************************************************************************)
(* The terms of the claims, stated on the input text alone.                *)
(***************************************************************************)

Backslash == Ch("\\")

\* The fixed substitution table of the simple escape sequences.
EscapeTable ==
    (Ch("t") :> 9) @@ (Ch("n") :> 10) @@ (Ch("r") :> 13) @@ (Ch("0") :> 0) @@
    (Ch("\\") :> Ch("\\")) @@ (Ch("\"") :> Ch("\"")) @@ (Ch("'") :> Ch("'"))

\* The nine recognized tags.
RecognizedTags == DOMAIN EscapeTable \cup {Ch("x"), Ch("u")}

\* The ASCII hex digits 0-9, A-F, a-f, and the value of one.
HexDigits == (48..57) \cup (65..70) \cup (97..102)

HexVal(c) == IF c <= 57 THEN c - 48 ELSE IF c <= 70 THEN c - 55 ELSE c - 87

\* The text from the n-th character on.
From(s, n) == SubSeq(s, n, Len(s))

\* The scan has read a backslash and the tag it is about to read is t.
AtTag(t) == pc = "tag" /\ pos < Len(input) /\ input[pos + 1] = t

\* The text that follows the tag the scan is about to read.
AfterTag == From(input, pos + 2)

(***************************************************************************)
(* C1.  Simple escape sequences.                                           *)
(***************************************************************************)

\* Every backslash of s is followed by the tag of a simple escape.
OnlySimple(s) ==
    \A i \in 1..Len(s) :
        s[i] = Backslash => i < Len(s) /\ s[i + 1] \in DOMAIN EscapeTable

\* s with every two-character escape replaced by the character the table
\* gives, and every other character kept.
RECURSIVE Unescaped(_)
Unescaped(s) ==
    IF s = <<>> THEN <<>>
    ELSE IF s[1] = Backslash /\ Len(s) >= 2
    THEN <<EscapeTable[s[2]]>> \o Unescaped(From(s, 3))
    ELSE <<s[1]>> \o Unescaped(Tail(s))

\* C1: on an input in which every backslash is followed by one of the tags
\* t, n, r, 0, \, ", ', decode returns Ok, each two-character escape being
\* replaced by the one character of the fixed table and every other
\* character kept, in order.
C1_SimpleEscapes ==
    (pc = "done" /\ OnlySimple(input)) => ret = Ok(Unescaped(input))

\* Two simple escapes and a literal have been decoded.
C1_Witness ==
    /\ pc = "done"
    /\ OnlySimple(input)
    /\ ret.kind = "Ok"
    /\ Len(ret.val) >= 3
    /\ Len(input) = Len(ret.val) + 2

(***************************************************************************)
(* C2.  Malformed hex escapes.                                             *)
(***************************************************************************)

\* C2: when the scan reaches a \x escape that is not followed by two ASCII
\* hex digits (fewer than two characters remain, or one of the two is not a
\* hex digit), decode fails with InvalidHexChar.
C2_HexRejected ==
    (/\ AtTag(Ch("x"))
     /\ \/ Len(AfterTag) < 2
        \/ AfterTag[1] \notin HexDigits
        \/ AfterTag[2] \notin HexDigits)
    => FinishEscape(Cur).ret = Err("InvalidHexChar")

(***************************************************************************)
(* C3.  Well-formed hex escapes.                                           *)
(***************************************************************************)

\* C3: when the scan reaches \x h1 h2 with h1, h2 ASCII hex digits, the
\* escape is replaced by the one character whose scalar value is the
\* base-16 value of h1 h2, and the scan resumes right after h2.
C3_HexDecoded ==
    (/\ AtTag(Ch("x"))
     /\ Len(AfterTag) >= 2
     /\ AfterTag[1] \in HexDigits
     /\ AfterTag[2] \in HexDigits)
    => LET after == FinishEscape(Cur) IN
       /\ after.pc = "scan"
       /\ after.ret = NoRet
       /\ after.result =
              Append(result, 16 * HexVal(AfterTag[1]) + HexVal(AfterTag[2]))
       /\ after.pos = pos + 3

\* A hex escape at the start of the input has been decoded to a character
\* above U+007F.
C3_Witness ==
    /\ pc = "scan"
    /\ pos = 4
    /\ input[1] = Backslash
    /\ input[2] = Ch("x")
    /\ input[3] \in HexDigits
    /\ input[4] \in HexDigits
    /\ result = <<16 * HexVal(input[3]) + HexVal(input[4])>>
    /\ result[1] > 127

(***************************************************************************)
(* C4, C5.  Unicode escapes.  The escape the scan is about to enter, read  *)
(* off the text after the tag u.                                           *)
(***************************************************************************)

\* The length of the maximal run of hex digits s starts with.
RECURSIVE RunLen(_)
RunLen(s) ==
    IF s # <<>> /\ s[1] \in HexDigits THEN 1 + RunLen(Tail(s)) ELSE 0

\* The text a after the tag u starts with an opening brace.
Opened(a) == Len(a) >= 1 /\ a[1] = Ch("{")

\* The maximal run of hex digits after the opening brace.
DigitRun(a) == SubSeq(a, 2, 1 + RunLen(From(a, 2)))

\* The run is immediately followed by a closing brace.
Closed(a) ==
    /\ Len(a) >= 2 + Len(DigitRun(a))
    /\ a[2 + Len(DigitRun(a))] = Ch("}")

\* A digit run without its leading zeros.
RECURSIVE Significant(_)
Significant(d) ==
    IF d # <<>> /\ d[1] = Ch("0") THEN Significant(Tail(d)) ELSE d

\* The base-16 value of a run of at most six significant digits.
RECURSIVE HexValue(_)
HexValue(d) ==
    IF d = <<>> THEN 0
    ELSE 16 * HexValue(SubSeq(d, 1, Len(d) - 1)) + HexVal(d[Len(d)])

\* The value of the run fits an unsigned 32-bit integer: at most eight
\* significant hex digits.
Fits32(d) == Len(Significant(d)) <= 8

\* The value of the run is greater than 0x10FFFF.
AboveMax(d) ==
    \/ Len(Significant(d)) > 6
    \/ HexValue(Significant(d)) > 1114111

\* The value of the run is a surrogate, 0xD800..0xDFFF.
Surrogate(d) ==
    /\ Len(Significant(d)) = 4
    /\ HexValue(Significant(d)) \in 55296..57343

\* C4: when the scan reaches a \u escape, decode fails with InvalidUnicode
\* exactly when the next character is not an opening brace, or the maximal
\* run of hex digits after the brace is not followed at once by a closing
\* brace, or the run is empty, or it does not fit 32 bits, or its value is a
\* surrogate or greater than 0x10FFFF.
C4_UnicodeRejected ==
    AtTag(Ch("u")) =>
        (FinishEscape(Cur).ret = Err("InvalidUnicode")
         <=> \/ ~Opened(AfterTag)
             \/ ~Closed(AfterTag)
             \/ DigitRun(AfterTag) = <<>>
             \/ ~Fits32(DigitRun(AfterTag))
             \/ Surrogate(DigitRun(AfterTag))
             \/ AboveMax(DigitRun(AfterTag)))

\* decode has failed with InvalidUnicode on the surrogate \u{D800}.
C4_Witness ==
    /\ pc = "done"
    /\ ret = Err("InvalidUnicode")
    /\ input = Str(<<"\\", "u", "{", "D", "8", "0", "0", "}">>)

\* C5: when the scan reaches \u{H} with H a non-empty run of hex digits
\* whose value v is a Unicode scalar value, the escape is replaced by the
\* one character v, the closing brace is consumed and not pushed, and the
\* scan resumes right after it.
C5_UnicodeDecoded ==
    (/\ AtTag(Ch("u"))
     /\ Opened(AfterTag)
     /\ Closed(AfterTag)
     /\ DigitRun(AfterTag) # <<>>
     /\ ~AboveMax(DigitRun(AfterTag))
     /\ ~Surrogate(DigitRun(AfterTag)))
    => LET after == FinishEscape(Cur) IN
       /\ after.pc = "scan"
       /\ after.ret = NoRet
       /\ after.result =
              Append(result, HexValue(Significant(DigitRun(AfterTag))))
       /\ after.pos = pos + 3 + Len(DigitRun(AfterTag))

\* The greatest scalar value, \u{10FFFF}, has been decoded and the scan
\* stands right after the closing brace, before a hex digit.
C5_Witness ==
    /\ pc = "scan"
    /\ pos = 10
    /\ input = Str(<<"\\", "u", "{", "1", "0", "F", "F", "F", "F", "}", "4">>)
    /\ result = <<1114111>>

(***************************************************************************)
(* C6.  Unknown escapes.                                                   *)
(***************************************************************************)

\* C6: when the scan reaches a backslash that is the last character of the
\* input, or whose next character is not one of the nine recognized tags,
\* decode fails with InvalidEscape.
C6_UnknownEscape ==
    (/\ pc = "tag"
     /\ \/ pos = Len(input)
        \/ input[pos + 1] \notin RecognizedTags)
    => FinishEscape(Cur).ret = Err("InvalidEscape")

\* decode has failed with InvalidEscape on the upper-case tag X.
C6_Witness ==
    /\ pc = "done"
    /\ ret = Err("InvalidEscape")
    /\ pos >= 2
    /\ input[pos] = Ch("X")
    /\ input[pos - 1] = Backslash

(***************************************************************************)
(* C8.  Plain text.                                                        *)
(***************************************************************************)

\* C8: on an input without a backslash, the empty input included, decode
\* returns Ok of the input itself.
C8_PlainText ==
    (pc = "done" /\ \A i \in 1..Len(input) : input[i] # Backslash)
    => ret = Ok(input)

\* A plain text of several different characters has been decoded.
C8_Witness ==
    /\ pc = "done"
    /\ Len(input) >= 3
    /\ \A i \in 1..Len(input) : input[i] # Backslash
    /\ input[1] # input[2]
    /\ ret = Ok(input)

(***************************************************************************)
(* C7.  The first error wins.  The invalid escape sequences of a text are  *)
(* told by the grammar of the three escape kinds.                          *)
(***************************************************************************)

\* The text a after the tag u is a well-formed Unicode escape body.
ValidUnicode(a) ==
    /\ Opened(a)
    /\ Closed(a)
    /\ DigitRun(a) # <<>>
    /\ ~AboveMax(DigitRun(a))
    /\ ~Surrogate(DigitRun(a))

\* The leftmost invalid escape sequence of s: the error kind it calls for
\* ("None" when every escape of s is valid) and the text after it.
RECURSIVE FirstInvalid(_)
FirstInvalid(s) ==
    IF s = <<>> THEN [err |-> "None", rest |-> <<>>]
    ELSE IF s[1] # Backslash THEN FirstInvalid(Tail(s))
    ELSE IF Len(s) = 1 THEN [err |-> "InvalidEscape", rest |-> <<>>]
    ELSE IF s[2] \in DOMAIN EscapeTable THEN FirstInvalid(From(s, 3))
    ELSE IF s[2] = Ch("x") THEN
        IF Len(s) >= 4 /\ s[3] \in HexDigits /\ s[4] \in HexDigits
        THEN FirstInvalid(From(s, 5))
        ELSE [err |-> "InvalidHexChar", rest |-> From(s, 5)]
    ELSE IF s[2] = Ch("u") THEN
        LET a == From(s, 3) IN
        IF ValidUnicode(a) THEN FirstInvalid(From(a, 3 + Len(DigitRun(a))))
        ELSE IF ~Opened(a)
        THEN [err |-> "InvalidUnicode", rest |-> From(a, 2)]
        ELSE [err |-> "InvalidUnicode", rest |-> From(a, 3 + Len(DigitRun(a)))]
    ELSE [err |-> "InvalidEscape", rest |-> From(s, 3)]

\* s holds several invalid escape sequences.
SeveralInvalid(s) ==
    /\ FirstInvalid(s).err # "None"
    /\ FirstInvalid(FirstInvalid(s).rest).err # "None"

\* C7: on an input with several invalid escape sequences decode returns the
\* error kind of the leftmost one and nothing else: an error value without
\* decoded text, the scan having stopped at that sequence.
C7_LeftmostError ==
    (pc = "done" /\ SeveralInvalid(input))
    => /\ ret = Err(FirstInvalid(input).err)
       /\ pos <= Len(input) - Len(FirstInvalid(input).rest)

(***************************************************************************)
(* C9.  The cursor only moves forward and every consumed character is      *)
(* accounted for once.                                                     *)
(***************************************************************************)

Literal(c) == [lit |-> TRUE, c |-> c]
Escape == [lit |-> FALSE]

\* The consumed text s cut into tokens, each character in exactly one: a
\* literal is one character, an escape sequence a backslash, its tag and
\* what the tag calls for (nothing, two characters, or a braced run of hex
\* digits).  open: s ends inside an escape sequence that is not complete.
RECURSIVE Tokens(_)
Tokens(s) ==
    IF s = <<>> THEN [toks |-> <<>>, open |-> FALSE]
    ELSE IF s[1] # Backslash
    THEN [Tokens(Tail(s)) EXCEPT !.toks = <<Literal(s[1])>> \o @]
    ELSE LET len ==
                 IF Len(s) = 1 THEN 0
                 ELSE IF s[2] \in DOMAIN EscapeTable THEN 2
                 ELSE IF s[2] = Ch("x") THEN (IF Len(s) >= 4 THEN 4 ELSE 0)
                 ELSE IF s[2] = Ch("u") THEN
                     (IF Opened(From(s, 3)) /\ Closed(From(s, 3))
                      THEN 4 + Len(DigitRun(From(s, 3))) ELSE 0)
                 ELSE 0
         IN IF len = 0 THEN [toks |-> <<>>, open |-> TRUE]
            ELSE [Tokens(From(s, len + 1)) EXCEPT !.toks = <<Escape>> \o @]

\* out holds one character per token, the literals unchanged and in place.
OnePerToken(out, toks) ==
    /\ Len(out) = Len(toks)
    /\ \A k \in 1..Len(toks) : toks[k].lit => out[k] = toks[k].c

\* While the call runs, the output holds one character per complete token
\* of the consumed text, and the scan is at the head of its loop exactly
\* between tokens; on success the whole input has been consumed and the
\* string returned holds one character per token.
Accounted ==
    LET t == Tokens(SubSeq(input, 1, pos)) IN
    /\ pos <= Len(input)
    /\ pc # "done" => /\ OnePerToken(result, t.toks)
                      /\ pc = "scan" <=> ~t.open
    /\ (pc = "done" /\ ret.kind = "Ok") =>
           /\ pos = Len(input)
           /\ ~t.open
           /\ OnePerToken(ret.val, t.toks)

\* A step consumes at most one character and never gives one back.
Forward == input' = input /\ pos' \in {pos, pos + 1}

\* C9: in every reachable state the consumed characters are accounted for
\* exactly once, as a literal pushed unchanged or as part of one escape
\* sequence, and every step moves the cursor forward or leaves it.
C9_ForwardAccounted == []Accounted /\ [][Forward]_vars

\* A Unicode escape and the literal after its closing brace have been
\* decoded: two tokens, two characters returned.
C9_Witness ==
    /\ pc = "done"
    /\ ret.kind = "Ok"
    /\ Len(ret.val) = 2
    /\ input[2] = Ch("u")
    /\ Tokens(input).toks = <<Escape, Literal(input[Len(input)])>>

(***************************************************************************)
(* C10.  decode of a concatenation.                                        *)
(***************************************************************************)

\* What decode(a \o b) is to return when decode(a) = Ok(x): Ok(x \o y) when
\* decode(b) = Ok(y), and decode(b)'s error otherwise.
Composed(a, b) ==
    IF Decode(b).kind = "Ok" THEN Ok(Decode(a).val \o Decode(b).val)
    ELSE Decode(b)

\* C10: for every way of cutting the input into a \o b with decode(a)
\* successful, decode(a \o b) returns Ok(x \o y) when decode(b) = Ok(y) and
\* fails with decode(b)'s error when decode(b) fails.
C10_Concatenation ==
    pc = "done" =>
        \A k \in 0..Len(input) :
            LET a == SubSeq(input, 1, k)
                b == From(input, k + 1)
            IN Decode(a).kind = "Ok" => ret = Composed(a, b)

\* decode has returned on a hex escape followed at once by a hex digit:
\* a = \x4a decodes to "J", b = 4 to "4".
C10_Witness ==
    /\ pc = "done"
    /\ input = Str(<<"\\", "x", "4", "a", "4">>)
    /\ Decode(SubSeq(input, 1, 4)) = Ok(<<74>>)
    /\ ret = Ok(<<74, Ch("4")>>)

=============================================================================
